---------------------------- MODULE Spec2Model ----------------------------
(***************************************************************************)
(* State-machine model of the camera / capture / describe session of       *)
(* src/App.tsx together with the description client of                     *)
(* src/services/geminiService.ts.                                          *)
(*                                                                         *)
(* JavaScript runs every handler to completion, so one action is one       *)
(* synchronous stretch of a handler: from its entry (or from the           *)
(* resumption of an await) to its next await or its end.  React state      *)
(* (useState) is the value after the stretch; the DOM the refs point to is *)
(* the one rendered from that state by renderContent.                      *)
(*                                                                         *)
(* App.tsx imports the description client under the name interpretImage;   *)
(* the only function the service module exports is describeImage, which is *)
(* the one modelled as the callee of handleCapture.                        *)
(***************************************************************************)
EXTENDS Integers, Sequences, FiniteSets, TLC

\* ------------------------------------------------------------------ bounds

\* Camera streams the platform hands out in one run.
MaxStreams == 3

\* startCamera invocations that may await getUserMedia at the same time.
MaxPending == 3

\* Captures (description requests issued) in one run.
MaxCaptures == 2

\* ----------------------------------------------------------------- values

\* null of useState<string | null>(null): the sequence no data URL is
NULL == <<>>

NoStream == 0

StreamIds == 1..MaxStreams

AppStates == {"idle", "camera_on", "capturing", "loading", "result", "error"}

\* Frames canvas.toDataURL('image/jpeg') may encode, as character sequences:
\* a header and a base64 payload, neither holding a comma.  The last one is
\* "data:," , what toDataURL answers for a canvas without width or height.
Frames ==
    { [header |-> <<"h", "1">>, payload |-> <<"A", "B">>],
      [header |-> <<"h", "1">>, payload |-> <<"B">>],
      [header |-> <<"d">>, payload |-> <<>>] }

\* The data URL of a frame: header, comma, payload.
DataUrl(f) == f.header \o <<",">> \o f.payload

DataUrls == { DataUrl(f) : f \in Frames }

\* textPart.text, the fixed instruction
Prompt ==
    "Describe esta imagen en espanol de forma concisa pero detallada. Centrate en los objetos principales, el entorno y cualquier accion que este ocurriendo."

\* response.text of a successful generateContent call
Texts == {"una silla", ""}

\* message of an Error thrown by generateContent
ErrorMessages == {"fetch failed"}

\* What one generateContent call ends with: a response, a thrown Error, or
\* a thrown value that is no Error.
Outcomes ==
    [kind : {"text"}, text : Texts, message : {""}]
        \cup [kind : {"error"}, text : {""}, message : ErrorMessages]
        \cup [kind : {"thrown"}, text : {""}, message : {""}]

\* err.name of a rejected getUserMedia promise
RejectNames == {"NotAllowedError", "NotFoundError"}

VARIABLES
    appState,        \* useState<AppState>
    imageSrc,        \* useState<string | null>: NULL or a data URL
    interpretation,  \* useState<string>
    error,           \* useState<string>
    isSpeaking,      \* useState(false)
    srcObject,       \* videoRef.current.srcObject: a stream id or NoStream
    acquired,        \* streams getUserMedia has granted so far (ids 1..acquired)
    stops,           \* per stream: how many times its tracks were stopped
    mediaDevices,    \* navigator.mediaDevices && navigator.mediaDevices.getUserMedia
    pendingCameras,  \* startCamera invocations awaiting getUserMedia
    awaitingPlay,    \* startCamera invocations awaiting videoRef.current.play()
    requests,        \* describeImage invocations awaiting generateContent
    issued,          \* description requests issued so far
    utterances,      \* speech events still to be delivered ("start" / "end")
    running,         \* the handler suspended between two of its statements
    last,            \* history: the operation that made the last step
    pre              \* history: the session fields before that step

session == <<appState, imageSrc, interpretation, error, isSpeaking>>

camera == <<srcObject, acquired, stops, mediaDevices, pendingCameras, awaitingPlay>>

vars == <<appState, imageSrc, interpretation, error, isSpeaking, srcObject,
          acquired, stops, mediaDevices, pendingCameras, awaitingPlay,
          requests, issued, utterances, running, last, pre>>

\* ---------------------------------------------------------------- history

Op(name) ==
    [op |-> name, stream |-> NoStream, kind |-> "", stale |-> FALSE, text |-> "",
     message |-> "", settled |-> [kind |-> "", value |-> ""]]

Snapshot ==
    [appState |-> appState, imageSrc |-> imageSrc,
     interpretation |-> interpretation, error |-> error,
     srcObject |-> srcObject, stops |-> stops,
     pendingCameras |-> pendingCameras, isSpeaking |-> isSpeaking,
     inFlight |-> Cardinality(requests), issued |-> issued]

\* ------------------------------------------------------------- the render

\* The <video ref={videoRef}> element exists only in the camera view.
VideoMounted(state) == state \in {"camera_on", "capturing"}

\* renderContent without disabled={appState === 'capturing'} on the capture
\* button.
RenderContentNoDisable(state, text, speaking) ==
    CASE state = "idle" -> {"StartCamera"}
      [] state \in {"camera_on", "capturing"} -> {"Capture"}
      [] state \in {"loading", "result", "error"} ->
            {"NewPhoto"} \cup
                (IF state = "result" /\ text # "" /\ ~speaking
                    THEN {"ListenAgain"} ELSE {})
      [] OTHER -> {}

\* The buttons renderContent renders enabled.
RenderContent(state, text, speaking) ==
    CASE state = "idle" -> {"StartCamera"}
      [] state = "camera_on" -> {"Capture"}
      [] state = "capturing" -> {}
      [] state \in {"loading", "result", "error"} ->
            {"NewPhoto"} \cup
                (IF state = "result" /\ text # "" /\ ~speaking
                    THEN {"ListenAgain"} ELSE {})
      [] OTHER -> {}

Buttons == RenderContent(appState, interpretation, isSpeaking)

\* videoRef.current.srcObject after the commit of a new appState: the
\* element, and what was bound to it, is gone when the view has no <video>.
Bound(state, stream) == IF VideoMounted(state) THEN stream ELSE NoStream

\* ------------------------------------------------------------- the camera

Live(s) == s \in 1..acquired /\ stops[s] = 0

LiveStreams == {s \in StreamIds : Live(s)}

\* stopCamera keeping every granted stream in a list it never prunes, and
\* stopping the whole list on each call.
StopCameraAll(mounted, stream, st) ==
    [srcObject |-> NoStream,
     stops |-> [s \in StreamIds |-> IF s <= acquired THEN st[s] + 1 ELSE st[s]]]

\* stopCamera, as the pair (srcObject, stops) it leaves.
StopCamera(mounted, stream, st) ==
    IF mounted /\ stream # NoStream
        THEN [srcObject |-> NoStream, stops |-> [st EXCEPT ![stream] = @ + 1]]
        ELSE [srcObject |-> stream, stops |-> st]

\* The message startCamera's catch block shows for a caught error.
CameraErrorMessage(name) ==
    IF name = "NotAllowedError"
        THEN "Camera permission denied. Please allow camera access in your browser settings."
        ELSE "Could not access the camera."

\* startCamera's catch block without its setAppState('error').
StartCameraCatchNoState(name) ==
    [error |-> CameraErrorMessage(name), appState |-> appState]

\* startCamera's catch block, as the pair (error, appState) it sets.
StartCameraCatch(name) ==
    [error |-> CameraErrorMessage(name), appState |-> "error"]

\* startCamera, from its entry to the await of getUserMedia (or, without
\* navigator.mediaDevices, through the throw and the catch block).
StartCamera ==
    /\ running = "none"
    /\ "StartCamera" \in Buttons
    /\ pendingCameras + awaitingPlay < MaxPending
    /\ LET sc == StopCamera(VideoMounted(appState), srcObject, stops)
           caught == StartCameraCatch("Error")
       IN /\ stops' = sc.stops
          /\ IF mediaDevices
                THEN /\ error' = ""
                     /\ appState' = appState
                     /\ pendingCameras' = pendingCameras + 1
                     /\ last' = Op("startCamera")
                ELSE /\ error' = caught.error
                     /\ appState' = caught.appState
                     /\ pendingCameras' = pendingCameras
                     /\ last' = [Op("cameraFailed") EXCEPT !.kind = "Error"]
          /\ srcObject' = Bound(appState', sc.srcObject)
    /\ pre' = Snapshot
    /\ UNCHANGED <<imageSrc, interpretation, isSpeaking, acquired, mediaDevices,
                   awaitingPlay, requests, issued, utterances, running>>

\* getUserMedia resolves: startCamera resumes with the granted stream.
GetUserMediaResolve ==
    /\ running = "none"
    /\ pendingCameras > 0
    /\ acquired < MaxStreams
    /\ LET stream == acquired + 1
       IN /\ acquired' = stream
          /\ pendingCameras' = pendingCameras - 1
          /\ IF VideoMounted(appState)
                THEN /\ srcObject' = stream
                     /\ awaitingPlay' = awaitingPlay + 1
                ELSE UNCHANGED <<srcObject, awaitingPlay>>
          /\ last' = [Op("granted") EXCEPT !.stream = stream]
    /\ pre' = Snapshot
    /\ UNCHANGED <<session, stops, mediaDevices, requests, issued, utterances,
                   running>>

\* getUserMedia rejects: startCamera resumes in its catch block.
GetUserMediaReject(name) ==
    /\ running = "none"
    /\ pendingCameras > 0
    /\ pendingCameras' = pendingCameras - 1
    /\ LET caught == StartCameraCatch(name)
       IN /\ error' = caught.error
          /\ appState' = caught.appState
    /\ srcObject' = Bound(appState', srcObject)
    /\ last' = [Op("cameraFailed") EXCEPT !.kind = name]
    /\ pre' = Snapshot
    /\ UNCHANGED <<imageSrc, interpretation, isSpeaking, acquired, stops,
                   mediaDevices, awaitingPlay, requests, issued, utterances,
                   running>>

\* videoRef.current.play() resolves: startCamera ends with the camera view.
PlayResolve ==
    /\ running = "none"
    /\ awaitingPlay > 0
    /\ awaitingPlay' = awaitingPlay - 1
    /\ appState' = "camera_on"
    /\ srcObject' = Bound(appState', srcObject)
    /\ last' = Op("playing")
    /\ pre' = Snapshot
    /\ UNCHANGED <<imageSrc, interpretation, error, isSpeaking, acquired, stops,
                   mediaDevices, pendingCameras, requests, issued, utterances,
                   running>>

\* videoRef.current.play() rejects: startCamera resumes in its catch block.
PlayReject(name) ==
    /\ running = "none"
    /\ awaitingPlay > 0
    /\ awaitingPlay' = awaitingPlay - 1
    /\ LET caught == StartCameraCatch(name)
       IN /\ error' = caught.error
          /\ appState' = caught.appState
    /\ srcObject' = Bound(appState', srcObject)
    /\ last' = [Op("cameraFailed") EXCEPT !.kind = name]
    /\ pre' = Snapshot
    /\ UNCHANGED <<imageSrc, interpretation, isSpeaking, acquired, stops,
                   mediaDevices, pendingCameras, requests, issued, utterances,
                   running>>

\* ------------------------------------------------------------------ reset

\* handleReset without its setInterpretation('').
HandleResetKeepsText ==
    [imageSrc |-> NULL, interpretation |-> interpretation, error |-> "",
     appState |-> "idle"]

\* handleReset going back to the camera view instead of idle.
HandleResetToCamera ==
    [imageSrc |-> NULL, interpretation |-> "", error |-> "",
     appState |-> "camera_on"]

\* handleReset, as the session fields it sets.
HandleResetState ==
    [imageSrc |-> NULL, interpretation |-> "", error |-> "", appState |-> "idle"]

\* handleReset (the New Photo button).
HandleReset ==
    /\ running = "none"
    /\ "NewPhoto" \in Buttons
    /\ LET sc == StopCamera(VideoMounted(appState), srcObject, stops)
           set == HandleResetState
       IN /\ stops' = sc.stops
          /\ imageSrc' = set.imageSrc
          /\ interpretation' = set.interpretation
          /\ error' = set.error
          /\ appState' = set.appState
          /\ srcObject' = Bound(appState', sc.srcObject)
    \* history: every request still in flight now belongs to a discarded capture
    /\ requests' = {[r EXCEPT !.stale = TRUE] : r \in requests}
    /\ last' = Op("reset")
    /\ pre' = Snapshot
    /\ UNCHANGED <<isSpeaking, acquired, mediaDevices, pendingCameras,
                   awaitingPlay, issued, utterances, running>>

\* ------------------------------------------------------------- the speech

\* speak(text), as the queue of speech events it leaves: nothing for an
\* empty text; otherwise speechSynthesis.cancel() ends whatever utterance is
\* queued or speaking (its onend / onerror handler runs), and the new
\* utterance will start and end.
Speak(text, queue) ==
    IF text = "" THEN queue
    ELSE (IF queue # <<>> THEN <<"end">> ELSE <<>>) \o <<"start", "end">>

\* utterance.onstart / utterance.onend / utterance.onerror
SpeechEvent ==
    /\ running = "none"
    /\ utterances # <<>>
    /\ isSpeaking' = (Head(utterances) = "start")
    /\ utterances' = Tail(utterances)
    /\ last' = Op("speech")
    /\ pre' = Snapshot
    /\ UNCHANGED <<appState, imageSrc, interpretation, error, camera, requests,
                   issued, running>>

\* The Listen Again button: speak(interpretation).
ListenAgain ==
    /\ running = "none"
    /\ "ListenAgain" \in Buttons
    /\ utterances' = Speak(interpretation, utterances)
    /\ last' = Op("listen")
    /\ pre' = Snapshot
    /\ UNCHANGED <<session, camera, requests, issued, running>>

\* ------------------------------------------------- the description client

\* base64Image.split(',') : the pieces between the commas.
RECURSIVE Split(_)
Split(str) ==
    IF \A i \in 1..Len(str) : str[i] # ","
        THEN <<str>>
        ELSE LET i == CHOOSE k \in 1..Len(str) :
                        str[k] = "," /\ \A j \in 1..(k - 1) : str[j] # ","
             IN <<SubSeq(str, 1, i - 1)>> \o Split(SubSeq(str, i + 1, Len(str)))

\* base64Image.split(',')[0] : the piece before the first comma.
InlineDataHeader(base64Image) == Split(base64Image)[1]

\* base64Image.split(',')[1] : the second piece (JavaScript counts from 0).
InlineData(base64Image) == Split(base64Image)[2]

\* describeImage rethrowing what generateContent threw.
DescribeImageRethrows(outcome) ==
    CASE outcome.kind = "text" ->
            [kind |-> "return", value |-> outcome.text]
      [] OTHER ->
            [kind |-> "throw", value |-> outcome.message]

\* describeImage, as what its promise settles with for one outcome of
\* generateContent: every outcome is inside its try block, so it returns.
DescribeImage(outcome) ==
    CASE outcome.kind = "text" ->
            [kind |-> "return", value |-> outcome.text]
      [] outcome.kind = "error" ->
            [kind |-> "return",
             value |-> "Error al contactar la IA: " \o outcome.message]
      [] OTHER ->
            [kind |-> "return",
             value |-> "Ocurrio un error desconocido al generar la descripcion."]

\* ------------------------------------------------------------ the capture

\* handleCapture, its first statement: setAppState('capturing').
HandleCapture ==
    /\ running = "none"
    /\ "Capture" \in Buttons
    /\ issued < MaxCaptures
    /\ appState' = "capturing"
    /\ running' = "handleCapture"
    /\ last' = Op("capture")
    /\ pre' = Snapshot
    /\ UNCHANGED <<imageSrc, interpretation, error, isSpeaking, camera, requests,
                   issued, utterances>>

\* handleCapture, from the test of the refs to the await of the description
\* (or to its end, when a ref or the 2D context is missing).
HandleCaptureFrame(context, dataUrl) ==
    /\ running = "handleCapture"
    /\ running' = "none"
    /\ IF VideoMounted(appState) /\ context
          THEN LET sc == StopCamera(VideoMounted(appState), srcObject, stops)
               IN /\ imageSrc' = dataUrl
                  /\ stops' = sc.stops
                  /\ appState' = "loading"
                  /\ srcObject' = Bound(appState', sc.srcObject)
                  /\ issued' = issued + 1
                  /\ requests' =
                        {[r EXCEPT !.stale = TRUE] : r \in requests} \cup
                            {[id |-> issued + 1, image |-> dataUrl,
                              data |-> InlineData(dataUrl), prompt |-> Prompt,
                              stale |-> FALSE]}
                  /\ last' = Op("frame")
          ELSE /\ UNCHANGED <<imageSrc, stops, appState, srcObject, issued,
                              requests>>
               /\ last' = Op("noFrame")
    /\ pre' = Snapshot
    /\ UNCHANGED <<interpretation, error, isSpeaking, acquired, mediaDevices,
                   pendingCameras, awaitingPlay, utterances>>

\* handleCapture resuming without its setInterpretation(interpretationText).
HandleCaptureResumeNoStore(settled, text, err, queue) ==
    IF settled.kind = "return"
        THEN [interpretation |-> text, error |-> err,
              utterances |-> Speak(settled.value, queue), appState |-> "result"]
        ELSE [interpretation |-> text,
              error |-> "Failed to interpret the image. Please try again.",
              utterances |-> queue, appState |-> "error"]

\* handleCapture resumes after `await interpretImage(dataUrl)`, as the
\* session fields it sets: the try block for a returned text, the catch
\* block for a rejection.
HandleCaptureResume(settled, text, err, queue) ==
    IF settled.kind = "return"
        THEN [interpretation |-> settled.value, error |-> err,
              utterances |-> Speak(settled.value, queue), appState |-> "result"]
        ELSE [interpretation |-> text,
              error |-> "Failed to interpret the image. Please try again.",
              utterances |-> queue, appState |-> "error"]

\* handleCapture resuming with a setImageSrc(null) of its own.
DescribeDoneDropsImage(r, outcome) ==
    /\ running = "none"
    /\ r \in requests
    /\ requests' = requests \ {r}
    /\ LET set == HandleCaptureResume(DescribeImage(outcome), interpretation,
                                      error, utterances)
       IN /\ interpretation' = set.interpretation
          /\ error' = set.error
          /\ utterances' = set.utterances
          /\ appState' = set.appState
    /\ imageSrc' = NULL
    /\ srcObject' = Bound(appState', srcObject)
    /\ last' = [Op("described") EXCEPT !.kind = outcome.kind,
                    !.stale = r.stale, !.text = outcome.text,
                    !.message = outcome.message,
                    !.settled = DescribeImage(outcome)]
    /\ pre' = Snapshot
    /\ UNCHANGED <<isSpeaking, acquired, stops, mediaDevices,
                   pendingCameras, awaitingPlay, issued, running>>

\* generateContent ends for request r: describeImage settles and
\* handleCapture resumes.
DescribeDone(r, outcome) ==
    /\ running = "none"
    /\ r \in requests
    /\ requests' = requests \ {r}
    /\ LET set == HandleCaptureResume(DescribeImage(outcome), interpretation,
                                      error, utterances)
       IN /\ interpretation' = set.interpretation
          /\ error' = set.error
          /\ utterances' = set.utterances
          /\ appState' = set.appState
    /\ srcObject' = Bound(appState', srcObject)
    /\ last' = [Op("described") EXCEPT !.kind = outcome.kind,
                    !.stale = r.stale, !.text = outcome.text,
                    !.message = outcome.message,
                    !.settled = DescribeImage(outcome)]
    /\ pre' = Snapshot
    /\ UNCHANGED <<imageSrc, isSpeaking, acquired, stops, mediaDevices,
                   pendingCameras, awaitingPlay, issued, running>>

\* ------------------------------------------------------- the program, mounted

\* The state after the first render: useState / useRef initial values.
Init ==
    /\ appState = "idle"
    /\ imageSrc = NULL
    /\ interpretation = ""
    /\ error = ""
    /\ isSpeaking = FALSE
    /\ srcObject = NoStream
    /\ acquired = 0
    /\ stops = [s \in StreamIds |-> 0]
    /\ mediaDevices \in BOOLEAN
    /\ pendingCameras = 0
    /\ awaitingPlay = 0
    /\ requests = {}
    /\ issued = 0
    /\ utterances = <<>>
    /\ running = "none"
    /\ last = Op("mount")
    /\ pre = Snapshot

\* The operations that can run from the first render.  No other handler is
\* ever invoked from there: CameraViewNeverReached.
Next ==
    \/ StartCamera
    \/ GetUserMediaResolve
    \/ \E name \in RejectNames : GetUserMediaReject(name)
    \/ HandleReset

Spec == Init /\ [][Next]_vars

\* Every operation of the component, enabled or not: under SpecAll the
\* reachable states are those of Spec, and PlayResolve, PlayReject,
\* HandleCapture, HandleCaptureFrame, DescribeDone, SpeechEvent and
\* ListenAgain never fire.
NextAll ==
    \/ Next
    \/ PlayResolve
    \/ \E name \in RejectNames : PlayReject(name)
    \/ HandleCapture
    \/ \E context \in BOOLEAN, dataUrl \in DataUrls :
            HandleCaptureFrame(context, dataUrl)
    \/ \E r \in requests, outcome \in Outcomes : DescribeDone(r, outcome)
    \/ SpeechEvent
    \/ ListenAgain

SpecAll == Init /\ [][NextAll]_vars

\* From the first render the program stays in idle and error: when
\* getUserMedia resolves the view is idle, which renders no <video>, so
\* videoRef.current is null, the stream is dropped and appState is left alone.
CameraViewNeverReached ==
    /\ appState \in {"idle", "error"}
    /\ srcObject = NoStream
    /\ awaitingPlay = 0
    /\ requests = {}

\* ------------------------------------------------- the camera view, mounted

\* The handlers of the camera view (handleCapture and what follows it),
\* started in the state that view is rendered from: appState camera_on, the
\* <video> element mounted with a live stream bound to it, nothing else
\* pending.  This is the state lines 36-38 of startCamera leave when they
\* run; Spec never reaches it (CameraViewNeverReached), so what SpecView
\* establishes is the contract of these handlers, given the camera view.
InitView ==
    /\ appState = "camera_on"
    /\ imageSrc = NULL
    /\ interpretation = ""
    /\ error = ""
    /\ isSpeaking = FALSE
    /\ srcObject = 1
    /\ acquired = 1
    /\ stops = [s \in StreamIds |-> 0]
    /\ mediaDevices = TRUE
    /\ pendingCameras = 0
    /\ awaitingPlay = 0
    /\ requests = {}
    /\ issued = 0
    /\ utterances = <<>>
    /\ running = "none"
    /\ last = Op("view")
    /\ pre = Snapshot

NextView ==
    \/ StartCamera
    \/ GetUserMediaResolve
    \/ \E name \in RejectNames : GetUserMediaReject(name)
    \/ HandleReset
    \/ HandleCapture
    \/ \E context \in BOOLEAN, dataUrl \in DataUrls :
            HandleCaptureFrame(context, dataUrl)
    \/ \E r \in requests, outcome \in Outcomes : DescribeDone(r, outcome)
    \/ SpeechEvent
    \/ ListenAgain

SpecView == InitView /\ [][NextView]_vars

\* The values the variables range over.
TypeOK ==
    /\ appState \in AppStates
    /\ imageSrc \in {NULL} \cup DataUrls
    /\ isSpeaking \in BOOLEAN
    /\ srcObject \in {NoStream} \cup StreamIds
    /\ acquired \in 0..MaxStreams
    /\ pendingCameras \in 0..MaxPending
    /\ awaitingPlay \in 0..MaxPending
    /\ issued \in 0..MaxCaptures
    /\ \A r \in requests : r.image \in DataUrls /\ r.id \in 1..issued
    /\ Len(utterances) <= 3
    /\ running \in {"none", "handleCapture"}
    /\ VideoMounted(appState) \/ srcObject = NoStream

\* ------------------------------------------------------------------ claims

C3_ResetClears ==
    last.op = "reset" =>
        /\ appState = "idle"
        /\ imageSrc = NULL
        /\ interpretation = ""
        /\ error = ""

C3_Witness ==
    /\ last.op = "reset"
    /\ pre.appState = "result"
    /\ pre.interpretation # ""
    /\ pre.imageSrc # NULL
    /\ appState = "idle"

C5_OneInFlight == Cardinality(requests) <= 1

C5_Witness ==
    /\ Cardinality(requests) = 1
    /\ appState = "idle"
    /\ last.op = "granted"

\* C6: only the user actions valid in a state are enabled in it: Start Camera
\* only in idle, Capture only in camera_on, New Photo only in loading, result
\* and error, Listen Again only in result while not speaking; and Capture is
\* not enabled while a description request is pending.
C6_OnlyValidActions ==
    /\ "StartCamera" \in Buttons => appState = "idle"
    /\ "Capture" \in Buttons => appState = "camera_on"
    /\ "NewPhoto" \in Buttons => appState \in {"loading", "result", "error"}
    /\ "ListenAgain" \in Buttons => appState = "result" /\ ~isSpeaking
    /\ requests # {} => "Capture" \notin Buttons

C6_Witness ==
    /\ requests # {}
    /\ appState = "loading"
    /\ Buttons = {"NewPhoto"}

\* C7: whenever appState is idle, loading, result or error, no acquired camera
\* stream is still live.
C7_CameraReleased ==
    appState \in {"idle", "loading", "result", "error"} => LiveStreams = {}

\* C8: the tracks of each acquired camera stream are stopped at most once.
C8_StoppedAtMostOnce == \A s \in StreamIds : stops[s] <= 1

C8_Witness ==
    /\ last.op = "reset"
    /\ stops[1] = 1
    /\ pre.stops[1] = 1

\* C9: when Start Camera was triggered in idle and the platform grants the
\* stream, the granted stream is bound to the video element and the session
\* is on its way to camera_on (awaiting playback) or in it.
C9_GrantBindsStream ==
    last.op = "granted" =>
        /\ srcObject = last.stream
        /\ (awaitingPlay > 0 \/ appState = "camera_on")

\* C10: when camera acquisition fails the session state becomes error with a
\* non-empty error message, and no acquisition is started except by the
\* user's Start Camera.
C10_CameraFailure ==
    /\ last.op = "cameraFailed" => appState = "error" /\ error # ""
    /\ pendingCameras > pre.pendingCameras => last.op = "startCamera"

C10_Witness ==
    /\ last.op = "cameraFailed"
    /\ last.kind = "NotAllowedError"
    /\ pre.appState = "idle"
    /\ appState = "error"

AllowedEdges ==
    { <<"idle", "camera_on">>, <<"idle", "error">>,
      <<"camera_on", "capturing">>, <<"capturing", "loading">>,
      <<"loading", "result">>, <<"loading", "error">> }

C15_ImageImmutable ==
    /\ imageSrc # pre.imageSrc => last.op \in {"frame", "reset"}
    /\ last.op = "reset" => imageSrc = NULL
    /\ last.op = "frame" => imageSrc \in DataUrls

C15_Witness ==
    /\ last.op = "described"
    /\ imageSrc \in DataUrls
    /\ imageSrc = pre.imageSrc
    /\ interpretation # pre.interpretation

\* C16: at most one camera stream is live at any time.
C16_OneLiveStream == Cardinality(LiveStreams) <= 1

\* C17: for a data URL header + ',' + payload the description client sends
\* exactly the payload, together with the fixed instruction prompt, and the
\* controller stores the model's returned text unchanged.
C17_PayloadSent ==
    /\ \A r \in requests :
            /\ r.prompt = Prompt
            /\ \A f \in Frames : r.image = DataUrl(f) => r.data = f.payload
    /\ last.op = "described" /\ last.kind = "text" =>
            interpretation = last.text

C17_Witness ==
    \E r \in requests :
        /\ r.image = <<"h", "1", ",", "A", "B">>
        /\ r.data = <<"A", "B">>
        /\ imageSrc = r.image

=============================================================================
